---- MODULE Spec2Model ----
(***************************************************************************)
(* Homepage Builder Service: the screenshot service (render subsystem),    *)
(* the homepage generator (generation pipeline) and the server startup.    *)
(*                                                                         *)
(* Every async function is cut at its awaits: the code between two awaits  *)
(* runs to completion on the Node.js event loop, so it is one action.      *)
(*                                                                         *)
(* Environment assumptions (puppeteer, outside this repository):           *)
(*   - browser.close() and page.close() on a live target resolve and the   *)
(*     target is gone afterwards; browser.close() closes every page of     *)
(*     that browser;                                                       *)
(*   - every other awaited call may resolve or reject; it cannot resolve   *)
(*     once its browser or page is gone.                                   *)
(* Wall-clock values (generated_at, generation_time) are abstract tokens.  *)
(***************************************************************************)
EXTENDS Integers, Sequences, FiniteSets, TLC

\* ------------------------------------------------------------------ bounds
MaxCalls    == 2    \* direct generateScreenshot calls
MaxInits    == 2    \* initialize() calls; the browser launched by call i is browser i
MaxCleanups == 2    \* cleanup() calls
MaxGens     == 2    \* generateHomepage calls

InitIds  == 1..MaxInits
CleanIds == 1..MaxCleanups
GenIds   == 1..MaxGens

\* ------------------------------------------------------- viewport presets
Devices == <<"desktop", "tablet", "mobile">>

NumDevices == Len(Devices)

DeviceNames == {Devices[k] : k \in 1..NumDevices}

\* generateResponsiveScreenshots: const viewports = {...}
viewports ==
    [ desktop |-> [width |-> 1200, height |-> 800,  deviceScaleFactor |-> 1],
      tablet  |-> [width |-> 768,  height |-> 1024, deviceScaleFactor |-> 2],
      mobile  |-> [width |-> 375,  height |-> 667,  deviceScaleFactor |-> 2] ]

\* generateScreenshot: the destructuring defaults of `options`
DefaultOptions ==
    [width |-> 1200, height |-> 800, deviceScaleFactor |-> 1,
     fullPage |-> TRUE, format |-> "png"]

\* { ...viewport, fullPage: false } run through the destructuring defaults
ResponsiveOptions(device) ==
    [width |-> viewports[device].width, height |-> viewports[device].height,
     deviceScaleFactor |-> viewports[device].deviceScaleFactor,
     fullPage |-> FALSE, format |-> "png"]

\* capture calls: 1..MaxCalls are direct calls; the one after them is the
\* generateScreenshot call in flight inside generateResponsiveScreenshots
\* (its loop awaits each device's call before it makes the next)
DirectIds == 1..MaxCalls

RespCapture == MaxCalls + 1

CapIds == 1..(MaxCalls + 1)

\* ------------------------------------------------------------------ state
VARIABLES
    browser,        \* ScreenshotService.browser: 0 is null, else a browser id
    isInitialized,  \* ScreenshotService.isInitialized
    bstate,         \* per browser: "none" (not launched), "live", "closed"
    closeCalls,     \* per browser: number of browser.close() invocations
    openPages,      \* capture calls whose page is open in its browser
    ini,            \* initialize() calls
    cln,            \* cleanup() calls
    cap,            \* generateScreenshot calls
    resp,           \* the generateResponsiveScreenshots call
    boot,           \* position of the app.listen startup callback
    genReady,       \* HomepageGenerator.ready
    sig,            \* the SIGTERM (1) and SIGINT (2) handlers
    server,         \* the HTTP server: "listening" or "closing"
    exited,         \* process.exit has run
    http,           \* POST /screenshot requests, one per direct capture call
    gen,            \* generateHomepage calls: position, request, provider response, outcome
    calc            \* one evaluation of a synchronous helper: arguments and result

renderVars == <<browser, isInitialized, bstate, closeCalls, openPages, ini, cln, cap, resp>>

mainVars == <<boot, genReady, sig, server, exited, http>>

vars == <<browser, isInitialized, bstate, closeCalls, openPages, ini, cln, cap, resp,
          boot, genReady, sig, server, exited, http, gen, calc>>

\* process.on('SIGTERM', ...) is handler 1, process.on('SIGINT', ...) is handler 2;
\* handler s makes cleanup() call s
Signals == {1, 2}

\* a request slot: the request's html_code presence and viewport, and the response
HttpIdle == [status |-> 0, body |-> "none", hasHtml |-> FALSE, viewport |-> "none"]

NoErr == "none"

ErrNotInitialized == "Screenshot service not initialized"

ErrPageClose == "page.close rejected: target closed"

CapIdle ==
    [pc |-> "idle", brw |-> 0, page |-> FALSE, err |-> NoErr, shot |-> FALSE,
     opts |-> DefaultOptions]

\* the awaits of generateScreenshot between newPage and the finally block
Stages == <<"setViewport", "setContent", "waitForTimeout", "screenshot">>

StageSet == {Stages[k] : k \in 1..Len(Stages)}

StageIndex(s) == CHOOSE k \in 1..Len(Stages) : Stages[k] = s

StageError(s) ==
    CASE s = "setViewport"    -> "setViewport failed"
      [] s = "setContent"     -> "setContent timeout"
      [] s = "waitForTimeout" -> "waitForTimeout failed"
      [] s = "screenshot"     -> "screenshot failed"

\* ScreenshotService.isReady
isReady == isInitialized /\ browser # 0

CapDone(c) == cap[c].pc \in {"returned", "threw"}


\* ------------------------------------------------------------------- Init
\* no helper evaluation is under way
CalcIdle == [fn |-> "none", args |-> <<>>, done |-> FALSE, out |-> <<>>]

\* constructor(): browser = null, isInitialized = false; nothing has run yet
Constructed ==
    /\ browser = 0
    /\ isInitialized = FALSE
    /\ bstate = [b \in InitIds |-> "none"]
    /\ closeCalls = [b \in InitIds |-> 0]
    /\ openPages = {}
    /\ ini = [i \in InitIds |-> [pc |-> "idle", launch |-> "none"]]
    /\ cln = [k \in CleanIds |-> [pc |-> "idle", target |-> 0]]
    /\ cap = [c \in CapIds |-> CapIdle]
    /\ resp = [pc |-> "idle", idx |-> 0, screenshots |-> <<>>]
    /\ boot = "listening"
    /\ genReady = FALSE
    /\ sig = [s \in Signals |-> "idle"]
    /\ server = "listening"
    /\ exited = FALSE
    /\ http = [c \in DirectIds |-> HttpIdle]
    /\ gen = [g \in GenIds |-> [pc |-> "idle", req |-> <<>>, calls |-> 0, response |-> <<>>,
                                html |-> <<>>, result |-> <<>>, error |-> <<>>]]

Init ==
    /\ Constructed
    /\ calc = CalcIdle

\* ------------------------------------------------ ScreenshotService.initialize
\* initialize() up to `await puppeteer.launch(...)`
StartInitialize(i) ==
    /\ ini[i].pc = "idle"
    /\ ini' = [ini EXCEPT ![i].pc = "launching"]

\* a caller invokes initialize(); calls are numbered in the order they start
InitCall(i) ==
    /\ (i > 1) => (ini[i - 1].pc # "idle")
    /\ StartInitialize(i)
    /\ UNCHANGED <<browser, isInitialized, bstate, closeCalls, openPages, cln, cap, resp,
                   mainVars, gen, calc>>

\* the launch resolved: this.browser = <new browser>; this.isInitialized = true
LaunchOk(i) ==
    /\ ini[i].pc = "launching"
    /\ bstate' = [bstate EXCEPT ![i] = "live"]
    /\ browser' = i
    /\ isInitialized' = TRUE
    /\ ini' = [ini EXCEPT ![i] = [pc |-> "returned", launch |-> "ok"]]
    /\ UNCHANGED <<closeCalls, openPages, cln, cap, resp, mainVars, gen, calc>>

\* LaunchFail with a catch block that rethrows
LaunchFailRethrows(i) ==
    /\ ini[i].pc = "launching"
    /\ isInitialized' = FALSE
    /\ ini' = [ini EXCEPT ![i] = [pc |-> "threw", launch |-> "failed"]]
    /\ UNCHANGED <<browser, bstate, closeCalls, openPages, cln, cap, resp, mainVars, gen, calc>>

\* the launch rejected: catch block, this.isInitialized = false, no rethrow
LaunchFail(i) ==
    /\ ini[i].pc = "launching"
    /\ isInitialized' = FALSE
    /\ ini' = [ini EXCEPT ![i] = [pc |-> "returned", launch |-> "failed"]]
    /\ UNCHANGED <<browser, bstate, closeCalls, openPages, cln, cap, resp, mainVars, gen, calc>>

\* --------------------------------------------------- ScreenshotService.cleanup
\* StartCleanup without the `if (this.browser)` guard: null.close() throws
StartCleanupUnguarded(k) ==
    /\ cln[k].pc = "idle"
    /\ IF browser # 0
         THEN /\ closeCalls' = [closeCalls EXCEPT ![browser] = @ + 1]
              /\ cln' = [cln EXCEPT ![k] = [pc |-> "closing", target |-> browser]]
         ELSE /\ cln' = [cln EXCEPT ![k] = [pc |-> "threw", target |-> 0]]
              /\ UNCHANGED closeCalls

\* cleanup() up to `await this.browser.close()`; with no browser it returns at once
StartCleanup(k) ==
    /\ cln[k].pc = "idle"
    /\ IF browser # 0
         THEN /\ closeCalls' = [closeCalls EXCEPT ![browser] = @ + 1]
              /\ cln' = [cln EXCEPT ![k] = [pc |-> "closing", target |-> browser]]
         ELSE /\ cln' = [cln EXCEPT ![k] = [pc |-> "returned", target |-> 0]]
              /\ UNCHANGED closeCalls

\* FinishCleanup that clears the handle and leaves isInitialized as it is
FinishCleanupKeepsFlag(k) ==
    /\ cln[k].pc = "closing"
    /\ bstate' = [bstate EXCEPT ![cln[k].target] = "closed"]
    /\ openPages' = {c \in openPages : cap[c].brw # cln[k].target}
    /\ browser' = 0
    /\ UNCHANGED isInitialized
    /\ cln' = [cln EXCEPT ![k].pc = "returned"]

\* the close resolved (the browser and all its pages are gone):
\* this.browser = null; this.isInitialized = false
FinishCleanup(k) ==
    /\ cln[k].pc = "closing"
    /\ bstate' = [bstate EXCEPT ![cln[k].target] = "closed"]
    /\ openPages' = {c \in openPages : cap[c].brw # cln[k].target}
    /\ browser' = 0
    /\ isInitialized' = FALSE
    /\ cln' = [cln EXCEPT ![k].pc = "returned"]

\* a caller invokes cleanup(); calls are numbered in the order they start
CleanupCall(k) ==
    /\ (k > 1) => (cln[k - 1].pc # "idle")
    /\ StartCleanup(k)
    /\ UNCHANGED <<browser, isInitialized, bstate, openPages, ini, cap, resp, mainVars, gen, calc>>

CleanupResume(k) ==
    /\ FinishCleanup(k)
    /\ UNCHANGED <<closeCalls, ini, cap, resp, mainVars, gen, calc>>

\* ---------------------------------------- ScreenshotService.generateScreenshot
\* the call up to `await this.browser.newPage()`: the readiness check and the
\* newPage request on the handle just checked
BeginCapture(cp, c, opts) ==
    IF ~isInitialized \/ browser = 0
      THEN [cp EXCEPT ![c] = [CapIdle EXCEPT !.pc = "threw", !.err = ErrNotInitialized,
                                             !.opts = opts]]
      ELSE [cp EXCEPT ![c] = [CapIdle EXCEPT !.pc = "newPage", !.brw = browser,
                                             !.opts = opts]]

\* a caller invokes generateScreenshot(html, css) with default options
CaptureCall(c) ==
    /\ c \in DirectIds
    /\ cap[c].pc = "idle"
    /\ (c > 1) => (cap[c - 1].pc # "idle")
    /\ cap' = BeginCapture(cap, c, DefaultOptions)
    /\ UNCHANGED <<browser, isInitialized, bstate, closeCalls, openPages, ini, cln, resp,
                   mainVars, gen, calc>>

\* newPage resolved: page = <new page>; setViewport requested
NewPageOk(c) ==
    /\ cap[c].pc = "newPage"
    /\ bstate[cap[c].brw] = "live"
    /\ openPages' = openPages \cup {c}
    /\ cap' = [cap EXCEPT ![c].pc = "setViewport", ![c].page = TRUE]
    /\ UNCHANGED <<browser, isInitialized, bstate, closeCalls, ini, cln, resp, mainVars, gen, calc>>

\* newPage rejected: catch rethrows; finally sees page = null and closes nothing
NewPageFail(c) ==
    /\ cap[c].pc = "newPage"
    /\ cap' = [cap EXCEPT ![c].pc = "threw", ![c].err = "newPage failed"]
    /\ UNCHANGED <<browser, isInitialized, bstate, closeCalls, openPages, ini, cln, resp,
                   mainVars, gen, calc>>

\* setViewport, setContent or waitForTimeout resolved: the next call is requested
StageOk(c) ==
    /\ cap[c].pc \in StageSet \ {"screenshot"}
    /\ c \in openPages
    /\ cap' = [cap EXCEPT ![c].pc = Stages[StageIndex(cap[c].pc) + 1]]
    /\ UNCHANGED <<browser, isInitialized, bstate, closeCalls, openPages, ini, cln, resp,
                   mainVars, gen, calc>>

\* page.screenshot resolved: `return screenshot`, then finally requests page.close()
ScreenshotOk(c) ==
    /\ cap[c].pc = "screenshot"
    /\ c \in openPages
    /\ cap' = [cap EXCEPT ![c].pc = "closing", ![c].shot = TRUE]
    /\ UNCHANGED <<browser, isInitialized, bstate, closeCalls, openPages, ini, cln, resp,
                   mainVars, gen, calc>>

\* StageFail without the finally block: the error is rethrown at once
StageFailSkipsClose(c) ==
    /\ cap[c].pc \in StageSet
    /\ cap' = [cap EXCEPT ![c].pc = "threw", ![c].err = StageError(cap[c].pc)]
    /\ UNCHANGED <<browser, isInitialized, bstate, closeCalls, openPages, ini, cln, resp,
                   mainVars, gen, calc>>

\* StageFail with a catch block that also marks the service uninitialized
StageFailDisables(c) ==
    /\ cap[c].pc \in StageSet
    /\ cap' = [cap EXCEPT ![c].pc = "closing", ![c].err = StageError(cap[c].pc)]
    /\ isInitialized' = FALSE
    /\ UNCHANGED <<browser, bstate, closeCalls, openPages, ini, cln, resp, mainVars, gen, calc>>

\* an awaited page call rejected: catch logs and rethrows, then finally
\* requests page.close() because page is set
StageFail(c) ==
    /\ cap[c].pc \in StageSet
    /\ cap' = [cap EXCEPT ![c].pc = "closing", ![c].err = StageError(cap[c].pc)]
    /\ UNCHANGED <<browser, isInitialized, bstate, closeCalls, openPages, ini, cln, resp,
                   mainVars, gen, calc>>

\* ClosePage that closes every page of the browser, not only its own
ClosePageClosesAll(c) ==
    /\ cap[c].pc = "closing"
    /\ openPages' = {}
    /\ cap' = [cap EXCEPT ![c].pc = IF cap[c].err = NoErr THEN "returned" ELSE "threw"]
    /\ UNCHANGED <<browser, isInitialized, bstate, closeCalls, ini, cln, resp, mainVars, gen, calc>>

\* page.close() resolved: the pending return or throw completes
ClosePage(c) ==
    /\ cap[c].pc = "closing"
    /\ openPages' = openPages \ {c}
    /\ cap' = [cap EXCEPT ![c].pc = IF cap[c].err = NoErr THEN "returned" ELSE "threw"]
    /\ UNCHANGED <<browser, isInitialized, bstate, closeCalls, ini, cln, resp, mainVars, gen, calc>>

\* page.close() rejected because the page went away with its browser: the
\* rejection thrown from finally replaces the pending return or throw
ClosePageGone(c) ==
    /\ cap[c].pc = "closing"
    /\ c \notin openPages
    /\ cap' = [cap EXCEPT ![c].pc = "threw", ![c].err = ErrPageClose, ![c].shot = FALSE]
    /\ UNCHANGED <<browser, isInitialized, bstate, closeCalls, openPages, ini, cln, resp,
                   mainVars, gen, calc>>

\* ---------------------------- generateScreenshotDataUrl / responsive screenshots
\* `data:image/${format};base64,${base64}` of the screenshot of call c
DataUrl(c) ==
    IF cap[c].opts.format = "jpeg" THEN "data:image/jpeg;base64,<screenshot>"
    ELSE "data:image/png;base64,<screenshot>"

Null == "null"

\* screenshots[device] = await generateScreenshotDataUrl(...) / catch: null
DeviceEntry(c) == IF cap[c].pc = "returned" THEN DataUrl(c) ELSE Null

\* generateResponsiveScreenshots up to the first await: screenshots = {} and
\* the capture for the first entry of Object.entries(viewports) is started
RespCall ==
    /\ resp.pc = "idle"
    /\ resp' = [pc |-> "running", idx |-> 1, screenshots |-> <<>>]
    /\ cap' = BeginCapture(cap, RespCapture, ResponsiveOptions(Devices[1]))
    /\ UNCHANGED <<browser, isInitialized, bstate, closeCalls, openPages, ini, cln,
                   mainVars, gen, calc>>

\* RespStep with the try/catch around the whole loop: the first failing
\* device ends the loop and the record built so far is returned
RespStepAborts ==
    /\ resp.pc = "running"
    /\ CapDone(RespCapture)
    /\ LET shots == (Devices[resp.idx] :> DeviceEntry(RespCapture)) @@ resp.screenshots
       IN  IF resp.idx < NumDevices /\ cap[RespCapture].pc = "returned"
             THEN /\ resp' = [pc |-> "running", idx |-> resp.idx + 1, screenshots |-> shots]
                  /\ cap' = BeginCapture(cap, RespCapture,
                                         ResponsiveOptions(Devices[resp.idx + 1]))
             ELSE /\ resp' = [pc |-> "returned", idx |-> resp.idx, screenshots |-> shots]
                  /\ UNCHANGED cap
    /\ UNCHANGED <<browser, isInitialized, bstate, closeCalls, openPages, ini, cln,
                   mainVars, gen, calc>>

\* the current device's capture settled: store the data URL or null, then
\* start the next device's capture or return the record
RespStep ==
    /\ resp.pc = "running"
    /\ CapDone(RespCapture)
    /\ LET shots == (Devices[resp.idx] :> DeviceEntry(RespCapture)) @@ resp.screenshots
       IN  IF resp.idx < NumDevices
             THEN /\ resp' = [pc |-> "running", idx |-> resp.idx + 1, screenshots |-> shots]
                  /\ cap' = BeginCapture(cap, RespCapture,
                                         ResponsiveOptions(Devices[resp.idx + 1]))
             ELSE /\ resp' = [pc |-> "returned", idx |-> resp.idx, screenshots |-> shots]
                  /\ UNCHANGED cap
    /\ UNCHANGED <<browser, isInitialized, bstate, closeCalls, openPages, ini, cln,
                   mainVars, gen, calc>>

CaptureStep(c) ==
    \/ NewPageOk(c)
    \/ NewPageFail(c)
    \/ StageOk(c)
    \/ ScreenshotOk(c)
    \/ StageFail(c)
    \/ ClosePage(c)
    \/ ClosePageGone(c)

\* the service's lifecycle, driven by any caller
Lifecycle ==
    \/ \E i \in InitIds : InitCall(i) \/ LaunchOk(i) \/ LaunchFail(i)
    \/ \E k \in CleanIds : CleanupCall(k) \/ CleanupResume(k)

\* lifecycle and direct generateScreenshot calls
Next ==
    \/ Lifecycle
    \/ \E c \in DirectIds : CaptureCall(c)
    \/ \E c \in CapIds : CaptureStep(c)

Spec == Init /\ [][Next]_vars

\* lifecycle and one generateResponsiveScreenshots call
NextResp ==
    \/ Lifecycle
    \/ RespCall
    \/ RespStep
    \/ CaptureStep(RespCapture)

SpecResp == Init /\ [][NextResp]_vars


\* ------------------------------------------------- HomepageGenerator: helpers
\* recommendations as the generator reads them (type, title, description)
Rec(t) == [type |-> t, title |-> "title", description |-> "description"]

RecLists ==
    { <<>>,
      <<Rec("design_improvement"), Rec("mobile_optimization"),
        Rec("seo_optimization"), Rec("performance_boost")>> }

\* validated /generate requests, as passed to generateHomepage
Requests ==
    [ businessName : {"Acme"},
      industry : {"healthcare"},
      recommendations : RecLists,
      stylePreference : {"modern", "classic"},
      includeBooking : BOOLEAN,
      colorScheme : {Null} ]

\* own keys of the industryColors object literal
industryColors ==
    [ healthcare            |-> [primary |-> "#10B981", secondary |-> "#059669", accent |-> "#3B82F6"],
      food_and_beverage     |-> [primary |-> "#F59E0B", secondary |-> "#D97706", accent |-> "#EF4444"],
      home_services         |-> [primary |-> "#3B82F6", secondary |-> "#1E40AF", accent |-> "#F59E0B"],
      automotive            |-> [primary |-> "#DC2626", secondary |-> "#B91C1C", accent |-> "#374151"],
      beauty_and_wellness   |-> [primary |-> "#EC4899", secondary |-> "#DB2777", accent |-> "#8B5CF6"],
      professional_services |-> [primary |-> "#1F2937", secondary |-> "#111827", accent |-> "#3B82F6"],
      default               |-> [primary |-> "#3B82F6", secondary |-> "#1E40AF", accent |-> "#10B981"] ]

\* property names every object literal inherits from Object.prototype; a
\* lookup of one of them yields a truthy value that is not a catalog entry
PrototypeKeys ==
    {"constructor", "toString", "valueOf", "hasOwnProperty", "isPrototypeOf",
     "propertyIsEnumerable", "toLocaleString", "__proto__"}

\* reading primary, secondary or accent of an inherited member gives undefined
InheritedMember == [primary |-> "undefined", secondary |-> "undefined", accent |-> "undefined"]

\* BaseColors that takes the supplied colorScheme as the primary colour
BaseColorsUsesScheme(colorScheme, industry) ==
    IF colorScheme # Null
      THEN [primary |-> colorScheme, secondary |-> "#1E40AF", accent |-> "#EF4444"]
      ELSE IF industry \in DOMAIN industryColors THEN industryColors[industry]
           ELSE IF industry \in PrototypeKeys THEN InheritedMember
           ELSE industryColors["default"]

\* _getBaseColors(colorScheme, industry)
BaseColors(colorScheme, industry) ==
    IF colorScheme # Null
      THEN [primary |-> "#3B82F6", secondary |-> "#1E40AF", accent |-> "#EF4444"]
      ELSE IF industry \in DOMAIN industryColors THEN industryColors[industry]
           ELSE IF industry \in PrototypeKeys THEN InheritedMember
           ELSE industryColors["default"]

\* _generateCustomCSS: the values interpolated into the fixed stylesheet text
CustomCSS(req) ==
    [ name |-> req.businessName,
      vars |-> BaseColors(req.colorScheme, req.industry) ]

\* recommendations.map(rec => rec.type)
RecTypes(recs) == [k \in 1..Len(recs) |-> recs[k].type]

Includes(seq, x) == \E k \in 1..Len(seq) : seq[k] = x

\* DetermineFeaturesIncluded that pushes one token per recommendation, in the
\* order of the recommendations
DetermineFeaturesPerRecommendation(recs, includeBooking, stylePreference) ==
    <<"responsive_design", "modern_layout">>
    \o (IF stylePreference = "modern"
          THEN <<"modern_typography", "gradient_backgrounds">> ELSE <<>>)
    \o SelectSeq([k \in 1..Len(recs) |->
                     CASE recs[k].type = "mobile_optimization"     -> "mobile_optimized"
                       [] recs[k].type = "seo_optimization"        -> "seo_optimized"
                       [] recs[k].type = "conversion_optimization" -> "conversion_optimized"
                       [] OTHER                                    -> ""],
                 LAMBDA token : token # "")
    \o (IF includeBooking THEN <<"booking_integration">> ELSE <<>>)
    \o <<"call_to_action", "contact_section", "services_showcase">>

\* DetermineFeaturesIncluded that adds the typography and gradient tokens for
\* every style but "classic"
DetermineFeaturesNotClassic(recs, includeBooking, stylePreference) ==
    LET recTypes == RecTypes(recs)
    IN  <<"responsive_design", "modern_layout">>
        \o (IF stylePreference # "classic"
              THEN <<"modern_typography", "gradient_backgrounds">> ELSE <<>>)
        \o (IF Includes(recTypes, "mobile_optimization") THEN <<"mobile_optimized">> ELSE <<>>)
        \o (IF Includes(recTypes, "seo_optimization") THEN <<"seo_optimized">> ELSE <<>>)
        \o (IF Includes(recTypes, "conversion_optimization")
              THEN <<"conversion_optimized">> ELSE <<>>)
        \o (IF includeBooking THEN <<"booking_integration">> ELSE <<>>)
        \o <<"call_to_action", "contact_section", "services_showcase">>

\* _determineFeaturesIncluded({ recommendations, includeBooking, stylePreference })
DetermineFeaturesIncluded(recs, includeBooking, stylePreference) ==
    LET recTypes == RecTypes(recs)
    IN  <<"responsive_design", "modern_layout">>
        \o (IF stylePreference = "modern"
              THEN <<"modern_typography", "gradient_backgrounds">> ELSE <<>>)
        \o (IF Includes(recTypes, "mobile_optimization") THEN <<"mobile_optimized">> ELSE <<>>)
        \o (IF Includes(recTypes, "seo_optimization") THEN <<"seo_optimized">> ELSE <<>>)
        \o (IF Includes(recTypes, "conversion_optimization")
              THEN <<"conversion_optimized">> ELSE <<>>)
        \o (IF includeBooking THEN <<"booking_integration">> ELSE <<>>)
        \o <<"call_to_action", "contact_section", "services_showcase">>

\* the switch of _generateImprovementDescription
ImprovementPhrase(t) ==
    CASE t = "design_improvement"      -> "modern design"
      [] t = "mobile_optimization"     -> "mobile optimization"
      [] t = "seo_optimization"        -> "SEO optimization"
      [] t = "conversion_optimization" -> "conversion optimization"
      [] t = "performance_boost"       -> "performance improvements"
      [] OTHER                         -> "website enhancement"

\* [...new Set(seq)]: drop repeats, keep first-seen order
RECURSIVE Unique(_)
Unique(seq) ==
    IF seq = <<>> THEN <<>>
    ELSE LET front == Unique(SubSeq(seq, 1, Len(seq) - 1))
             last  == seq[Len(seq)]
         IN  IF Includes(front, last) THEN front ELSE Append(front, last)

Min(a, b) == IF a < b THEN a ELSE b

\* ImprovementDescription that states the number of distinct phrases as the
\* number of improvements
ImprovementDescriptionCountsDistinct(recs, featuresIncluded) ==
    LET improvementTypes == [k \in 1..Len(recs) |-> ImprovementPhrase(recs[k].type)]
        uniqueTypes == Unique(improvementTypes)
    IN  [ numRecommendations |-> Len(uniqueTypes),
          listed |-> SubSeq(uniqueTypes, 1, Min(3, Len(uniqueTypes))),
          others |-> IF Len(uniqueTypes) > 3 THEN Len(uniqueTypes) - 3 ELSE 0,
          numFeatures |-> Len(featuresIncluded) ]

\* _generateImprovementDescription: the values interpolated into the sentence
\* (listed is joined by ", "; others is 0 when the "and N other" part is absent)
ImprovementDescription(recs, featuresIncluded) ==
    LET improvementTypes == [k \in 1..Len(recs) |-> ImprovementPhrase(recs[k].type)]
        uniqueTypes == Unique(improvementTypes)
    IN  [ numRecommendations |-> Len(recs),
          listed |-> SubSeq(uniqueTypes, 1, Min(3, Len(uniqueTypes))),
          others |-> IF Len(uniqueTypes) > 3 THEN Len(uniqueTypes) - 3 ELSE 0,
          numFeatures |-> Len(featuresIncluded) ]

\* own keys of the templates object literal of _getIndustryTemplate; each
\* guidance text is stood for by its first line
templates ==
    [ home_services         |-> "Emphasize trust and reliability with reviews/testimonials",
      healthcare            |-> "Emphasize professionalism and trust",
      food_and_beverage     |-> "Showcase menu highlights with appetizing descriptions",
      automotive            |-> "Emphasize expertise and certifications",
      beauty_and_wellness   |-> "Showcase services with before/after examples",
      professional_services |-> "Emphasize expertise and credentials",
      retail                |-> "Showcase product highlights with images",
      default               |-> "Focus on clear value proposition" ]

\* templates[industry] for an inherited property name: a function or the
\* prototype object, truthy, so `|| templates.default` is not taken
InheritedTemplate == "[inherited member of Object.prototype]"

\* _getIndustryTemplate(industry, businessType)
IndustryTemplate(industry, businessType) ==
    IF industry \in DOMAIN templates THEN templates[industry]
    ELSE IF industry \in PrototypeKeys THEN InheritedTemplate
    ELSE templates["default"]

\* CreateHomepagePrompt that lists every recommendation, not the first three
CreateHomepagePromptUnsliced(args) ==
    [ businessName |-> args.businessName,
      industry |-> args.industry,
      stylePreference |-> args.stylePreference,
      colorSchemeText |-> IF args.colorScheme # Null
                            THEN <<"Use this color scheme: ", args.colorScheme>> ELSE <<>>,
      bookingText |-> IF args.includeBooking
                        THEN <<"Include a prominent Book Appointment button">> ELSE <<>>,
      topRecommendations |->
          [k \in 1..Len(args.recommendations) |->
              <<"- ", args.recommendations[k].title, ": ",
                args.recommendations[k].description>>],
      templateGuidance |-> IndustryTemplate(args.industry, "local business") ]

\* _createHomepagePrompt: the values interpolated into the fixed prompt text
\* (topRecommendations is joined by newlines; <<>> is the empty string)
CreateHomepagePrompt(args) ==
    [ businessName |-> args.businessName,
      industry |-> args.industry,
      stylePreference |-> args.stylePreference,
      colorSchemeText |-> IF args.colorScheme # Null
                            THEN <<"Use this color scheme: ", args.colorScheme>> ELSE <<>>,
      bookingText |-> IF args.includeBooking
                        THEN <<"Include a prominent Book Appointment button">> ELSE <<>>,
      topRecommendations |->
          [k \in 1..Min(3, Len(args.recommendations)) |->
              <<"- ", args.recommendations[k].title, ": ",
                args.recommendations[k].description>>],
      templateGuidance |-> IndustryTemplate(args.industry, "local business") ]

\* _generateBookingJS(): a fixed script
BookingJS == "booking script"

\* --------------------------------------------------- completion provider
\* message content is a sequence of characters; " " stands for whitespace
WS == " "

Content(text) == [isNull |-> FALSE, text |-> text]

NullContent == [isNull |-> TRUE, text |-> <<>>]

\* what openai.chat.completions.create can resolve with
ProviderResponses ==
    { [choices |-> <<>>],
      [choices |-> <<NullContent>>],
      [choices |-> <<Content(<<>>)>>],
      [choices |-> <<Content(<<WS, WS>>)>>],
      [choices |-> <<Content(<<WS, "<html>", WS>>)>>] }

\* what it can reject with (error.message)
ProviderErrors == {"Request timed out.", "401 Incorrect API key provided"}

\* String.prototype.trim
RECURSIVE Trim(_)
Trim(t) ==
    IF t = <<>> THEN <<>>
    ELSE IF Head(t) = WS THEN Trim(Tail(t))
    ELSE IF t[Len(t)] = WS THEN Trim(SubSeq(t, 1, Len(t) - 1))
    ELSE t

\* response.choices[0].message.content.trim(): the TypeError it throws, if any
ExtractError(response) ==
    IF response.choices = <<>>
      THEN "Cannot read properties of undefined (reading 'message')"
    ELSE IF response.choices[1].isNull
      THEN "Cannot read properties of null (reading 'trim')"
    ELSE NoErr

\* new Error(`Failed to generate homepage code: ${error.message}`)
CodeError(cause) == <<"Failed to generate homepage code: ", cause>>

\* new Error(`Homepage generation failed: ${error.message}`)
GenerationError(message) == <<"Homepage generation failed: ">> \o message

GenIdle ==
    [pc |-> "idle", req |-> <<>>, calls |-> 0, response |-> <<>>,
     html |-> <<>>, result |-> <<>>, error |-> <<>>]

\* GenerationResult that ships the booking script whatever includeBooking is
GenerationResultAlwaysJS(g, req, html) ==
    LET featuresIncluded ==
            DetermineFeaturesIncluded(req.recommendations, req.includeBooking,
                                      req.stylePreference)
    IN  [ id |-> g,
          business_name |-> req.businessName,
          generated_at |-> "now",
          html_code |-> html,
          css_code |-> CustomCSS(req),
          js_code |-> BookingJS,
          style_applied |-> req.stylePreference,
          features_included |-> featuresIncluded,
          estimated_improvement |->
              ImprovementDescription(req.recommendations, featuresIncluded),
          generation_time |-> 0 ]

\* the object returned by generateHomepage
GenerationResult(g, req, html) ==
    LET featuresIncluded ==
            DetermineFeaturesIncluded(req.recommendations, req.includeBooking,
                                      req.stylePreference)
    IN  [ id |-> g,
          business_name |-> req.businessName,
          generated_at |-> "now",
          html_code |-> html,
          css_code |-> CustomCSS(req),
          js_code |-> IF req.includeBooking THEN BookingJS ELSE Null,
          style_applied |-> req.stylePreference,
          features_included |-> featuresIncluded,
          estimated_improvement |->
              ImprovementDescription(req.recommendations, featuresIncluded),
          generation_time |-> 0 ]

\* ------------------------------------------- HomepageGenerator.generateHomepage
\* GenCall that refuses to run while the screenshot service is not ready
GenCallNeedsScreenshots(g, req) ==
    /\ isReady
    /\ gen[g].pc = "idle"
    /\ (g > 1) => (gen[g - 1].pc # "idle")
    /\ gen' = [gen EXCEPT ![g] = [GenIdle EXCEPT !.pc = "completing", !.req = req,
                                                 !.calls = 1]]
    /\ UNCHANGED <<browser, isInitialized, bstate, closeCalls, openPages, ini, cln, cap, resp,
                   mainVars, calc>>

\* generateHomepage up to `await this.openai.chat.completions.create(...)`:
\* the prompt is built and the one provider call is issued
GenCall(g, req) ==
    /\ gen[g].pc = "idle"
    /\ (g > 1) => (gen[g - 1].pc # "idle")
    /\ gen' = [gen EXCEPT ![g] = [GenIdle EXCEPT !.pc = "completing", !.req = req,
                                                 !.calls = 1]]
    /\ UNCHANGED <<browser, isInitialized, bstate, closeCalls, openPages, ini, cln, cap, resp,
                   mainVars, calc>>

\* Thrown with a catch block that returns what was built so far
ThrownPartial(call, message) ==
    [call EXCEPT !.pc = "returned",
                 !.result = <<[business_name |-> call.req.businessName,
                               style_applied |-> call.req.stylePreference]>>]

\* a call that ends in the catch block of generateHomepage
Thrown(call, message) ==
    [call EXCEPT !.pc = "threw", !.error = GenerationError(message)]

\* the provider resolved: the content is extracted and trimmed, or the
\* TypeError of the extraction is wrapped by both catch blocks
ProviderResolve(g, response) ==
    /\ gen[g].pc = "completing"
    /\ gen' = [gen EXCEPT ![g] =
                 IF ExtractError(response) # NoErr
                   THEN Thrown([gen[g] EXCEPT !.response = <<response>>],
                               CodeError(ExtractError(response)))
                   ELSE [gen[g] EXCEPT !.pc = "customCSS",
                                       !.response = <<response>>,
                                       !.html = Trim(response.choices[1].text)]]
    /\ UNCHANGED <<browser, isInitialized, bstate, closeCalls, openPages, ini, cln, cap, resp,
                   mainVars, calc>>

\* ProviderReject with one retry of the completion call before giving up
ProviderRejectRetries(g, message) ==
    /\ gen[g].pc = "completing"
    /\ gen' = [gen EXCEPT ![g] =
                 IF gen[g].calls < 2 THEN [gen[g] EXCEPT !.calls = @ + 1]
                 ELSE Thrown(gen[g], CodeError(message))]
    /\ UNCHANGED <<browser, isInitialized, bstate, closeCalls, openPages, ini, cln, cap, resp,
                   mainVars, calc>>

\* the provider rejected: wrapped by the catch of _generateHomepageCode and
\* again by the catch of generateHomepage
ProviderReject(g, message) ==
    /\ gen[g].pc = "completing"
    /\ gen' = [gen EXCEPT ![g] = Thrown(gen[g], CodeError(message))]
    /\ UNCHANGED <<browser, isInitialized, bstate, closeCalls, openPages, ini, cln, cap, resp,
                   mainVars, calc>>

\* GenReturn that builds the result from the request of the call started last,
\* as if the request were kept in a field of the shared generator instance
GenReturnSharedRequest(g) ==
    /\ gen[g].pc = "customCSS"
    /\ LET last == CHOOSE h \in GenIds :
                     /\ gen[h].pc # "idle"
                     /\ \A k \in GenIds : (gen[k].pc # "idle") => (k <= h)
       IN  gen' = [gen EXCEPT ![g].pc = "returned",
                              ![g].result = <<GenerationResult(g, gen[last].req, gen[g].html)>>]
    /\ UNCHANGED <<browser, isInitialized, bstate, closeCalls, openPages, ini, cln, cap, resp,
                   mainVars, calc>>

\* after `await this._generateCustomCSS(...)`: features, narrative, the result
GenReturn(g) ==
    /\ gen[g].pc = "customCSS"
    /\ gen' = [gen EXCEPT ![g].pc = "returned",
                          ![g].result = <<GenerationResult(g, gen[g].req, gen[g].html)>>]
    /\ UNCHANGED <<browser, isInitialized, bstate, closeCalls, openPages, ini, cln, cap, resp,
                   mainVars, calc>>

GenStep(g) ==
    \/ \E req \in Requests : GenCall(g, req)
    \/ \E response \in ProviderResponses : ProviderResolve(g, response)
    \/ \E message \in ProviderErrors : ProviderReject(g, message)
    \/ GenReturn(g)

NextGen == \E g \in GenIds : GenStep(g)

SpecGen == Init /\ [][NextGen]_vars


\* ------------------------------------- ScreenshotService._createCompleteHtml
\* Text is a sequence of lexical tokens: the markers the code searches for
\* ("<!DOCTYPE html>", "<html", "</head>") are one token each, and so are the
\* replacement patterns of String.prototype.replace ("$$", "$&", "$`", "$'").

\* String.prototype.indexOf for a one-token pattern (0: not found)
IndexOf(text, token) ==
    IF Includes(text, token)
      THEN CHOOSE k \in 1..Len(text) :
               text[k] = token /\ \A m \in 1..(k - 1) : text[m] # token
      ELSE 0

\* GetSubstitution: what replace() substitutes for a replacement string,
\* given the matched text and the text before and after the match
RECURSIVE Substitution(_, _, _, _)
Substitution(replacement, matched, before, after) ==
    IF replacement = <<>> THEN <<>>
    ELSE (CASE Head(replacement) = "$$" -> <<"$">>
            [] Head(replacement) = "$&" -> <<matched>>
            [] Head(replacement) = "$`" -> before
            [] Head(replacement) = "$'" -> after
            [] OTHER                    -> <<Head(replacement)>>)
         \o Substitution(Tail(replacement), matched, before, after)

\* text.replace(pattern, replacement) with a string pattern: the first
\* occurrence only, and the text itself when there is none
Replace(text, pattern, replacement) ==
    LET k == IndexOf(text, pattern)
    IN  IF k = 0 THEN text
        ELSE LET before == SubSeq(text, 1, k - 1)
                 after  == SubSeq(text, k + 1, Len(text))
             IN  before \o Substitution(replacement, pattern, before, after) \o after

\* `<style>${cssContent}</style>`
StyleBlock(cssContent) == <<"<style>">> \o cssContent \o <<"</style>">>

\* _createCompleteHtml(htmlContent, cssContent); the empty string is falsy
CreateCompleteHtml(htmlContent, cssContent) ==
    IF Includes(htmlContent, "<!DOCTYPE html>") \/ Includes(htmlContent, "<html")
      THEN IF cssContent # <<>>
             THEN IF Includes(htmlContent, "</head>")
                    THEN Replace(htmlContent, "</head>",
                                 StyleBlock(cssContent) \o <<"</head>">>)
                    ELSE Replace(htmlContent, "<html",
                                 <<"<html", ">", "<head>">> \o StyleBlock(cssContent)
                                     \o <<"</head>", "<html">>)
             ELSE htmlContent
      ELSE <<"<!DOCTYPE html>", "<html", " lang=en>", "<head>",
             "<meta charset=UTF-8>", "<meta name=viewport>",
             "<title>Generated Homepage</title>">>
           \o (IF cssContent # <<>> THEN StyleBlock(cssContent) ELSE <<>>)
           \o <<"<link rel=stylesheet>", "</head>", "<body>">>
           \o htmlContent
           \o <<"</body>", "</html>">>

\* ---------------------------------- the synchronous helpers, one evaluation
MaxRecs == 4    \* recommendations in one helper evaluation

\* recommendation types: the five of the switch and one it does not know
RecTypeSet ==
    {"design_improvement", "mobile_optimization", "seo_optimization",
     "conversion_optimization", "performance_boost", "custom_type"}

RecSeqs == UNION {[1..n -> {Rec(t) : t \in RecTypeSet}] : n \in 0..MaxRecs}

\* style_preference: Joi valid('modern', 'classic', 'minimal', 'bold', 'professional')
Styles == {"modern", "classic", "minimal", "bold", "professional"}

\* industry: Joi.string().required(), any string: the catalog keys, names
\* in no catalog, and names every object inherits
Industries ==
    {"home_services", "healthcare", "food_and_beverage", "automotive",
     "beauty_and_wellness", "professional_services", "retail", "default",
     "plumbing", "constructor", "toString", "__proto__"}

\* color_scheme: a #RRGGBB string or null
ColorSchemes == {Null, "#112233", "#ABCDEF"}

MaxDoc == 4     \* tokens in the html of one _createCompleteHtml evaluation

\* html_code is any non-empty string: documents with and without a doctype,
\* an html root tag, a head end tag
HtmlTokens == {"<!DOCTYPE html>", "<html", "</head>", "<p>hello</p>"}

HtmlInputs == UNION {[1..n -> HtmlTokens] : n \in 1..MaxDoc}

\* css_code is any string, the empty one included
CssInputs ==
    { <<>>, <<"p{color:red}">>, <<"p{color:red}", "a{}">>,
      <<"a::after{content:'", "$&", "'}">>,
      <<"a::after{content:'", "$$", "'}">>,
      <<"a::after{content:'", "$'", "'}">>,
      <<"a::after{content:'", "$`", "'}">> }

\* recommendations told apart by their title and description
TitledRecs ==
    { [type |-> "design_improvement",  title |-> "Refresh the look",
       description |-> "Use a modern layout"],
      [type |-> "mobile_optimization", title |-> "Fix mobile",
       description |-> "Make the page responsive"],
      [type |-> "seo_optimization",    title |-> "Add meta tags",
       description |-> "Describe each page"],
      [type |-> "custom_type",         title |-> "Show prices",
       description |-> "List the packages"] }

TitledRecSeqs == UNION {[1..n -> TitledRecs] : n \in 0..MaxRecs}

\* the arguments the helpers can be called with
CalcInputs ==
    {[fn |-> "prompt", done |-> FALSE, out |-> <<>>,
      args |-> [businessName |-> "Acme", industry |-> i, recommendations |-> r,
                stylePreference |-> "modern", includeBooking |-> b, colorScheme |-> cs]] :
        i \in {"healthcare", "plumbing"}, r \in TitledRecSeqs, b \in BOOLEAN,
        cs \in ColorSchemes}
    \cup
    {[fn |-> "completeHtml", done |-> FALSE, out |-> <<>>,
      args |-> [htmlContent |-> h, cssContent |-> c]] :
        h \in HtmlInputs, c \in CssInputs}
    \cup
    {[fn |-> "features", done |-> FALSE, out |-> <<>>,
      args |-> [recommendations |-> r, includeBooking |-> b, stylePreference |-> st]] :
        r \in RecSeqs, b \in BOOLEAN, st \in Styles}
    \cup
    {[fn |-> "improvement", done |-> FALSE, out |-> <<>>,
      args |-> [recommendations |-> r, featuresIncluded |-> f]] :
        r \in RecSeqs,
        f \in {<<"responsive_design">>, DetermineFeaturesIncluded(<<>>, FALSE, "classic")}}
    \cup
    {[fn |-> "colors", done |-> FALSE, out |-> <<>>,
      args |-> [colorScheme |-> cs, industry |-> i]] :
        cs \in ColorSchemes, i \in Industries}
    \cup
    {[fn |-> "template", done |-> FALSE, out |-> <<>>,
      args |-> [industry |-> i, businessType |-> "local business"]] : i \in Industries}

InitHelpers ==
    /\ Constructed
    /\ calc \in CalcInputs

\* this._determineFeaturesIncluded({ recommendations, includeBooking, stylePreference })
EvalFeatures ==
    /\ calc.fn = "features" /\ ~calc.done
    /\ calc' = [calc EXCEPT !.done = TRUE,
                            !.out = DetermineFeaturesIncluded(calc.args.recommendations,
                                                               calc.args.includeBooking,
                                                               calc.args.stylePreference)]
    /\ UNCHANGED <<renderVars, mainVars, gen>>

\* this._generateImprovementDescription(recommendations, featuresIncluded)
EvalImprovement ==
    /\ calc.fn = "improvement" /\ ~calc.done
    /\ calc' = [calc EXCEPT !.done = TRUE,
                            !.out = ImprovementDescription(calc.args.recommendations,
                                                            calc.args.featuresIncluded)]
    /\ UNCHANGED <<renderVars, mainVars, gen>>

\* this._getBaseColors(colorScheme, industry)
EvalBaseColors ==
    /\ calc.fn = "colors" /\ ~calc.done
    /\ calc' = [calc EXCEPT !.done = TRUE,
                            !.out = BaseColors(calc.args.colorScheme, calc.args.industry)]
    /\ UNCHANGED <<renderVars, mainVars, gen>>

\* this._getIndustryTemplate(industry, businessType)
EvalIndustryTemplate ==
    /\ calc.fn = "template" /\ ~calc.done
    /\ calc' = [calc EXCEPT !.done = TRUE,
                            !.out = IndustryTemplate(calc.args.industry,
                                                     calc.args.businessType)]
    /\ UNCHANGED <<renderVars, mainVars, gen>>

\* generateScreenshot: this._createCompleteHtml(htmlContent, cssContent)
EvalCompleteHtml ==
    /\ calc.fn = "completeHtml" /\ ~calc.done
    /\ calc' = [calc EXCEPT !.done = TRUE,
                            !.out = CreateCompleteHtml(calc.args.htmlContent,
                                                       calc.args.cssContent)]
    /\ UNCHANGED <<renderVars, mainVars, gen>>

\* _generateHomepageCode: this._createHomepagePrompt({...})
EvalPrompt ==
    /\ calc.fn = "prompt" /\ ~calc.done
    /\ calc' = [calc EXCEPT !.done = TRUE, !.out = CreateHomepagePrompt(calc.args)]
    /\ UNCHANGED <<renderVars, mainVars, gen>>

NextHelpers ==
    \/ EvalPrompt
    \/ EvalCompleteHtml
    \/ EvalFeatures
    \/ EvalImprovement
    \/ EvalBaseColors
    \/ EvalIndustryTemplate

SpecHelpers == InitHelpers /\ [][NextHelpers]_vars


\* ------------------------------------------------ main.js: server startup
\* HomepageGenerator.isReady, with the OPENAI_API_KEY main.js insists on
GeneratorIsReady == genReady

\* the app.listen callback up to `await generator.initialize()`:
\* initialize() has run and set this.ready = true
BootCallback ==
    /\ boot = "listening"
    /\ genReady' = TRUE
    /\ boot' = "awaitGenerator"
    /\ UNCHANGED <<renderVars, sig, server, exited, http, gen, calc>>

\* the callback up to `await screenshotService.initialize()`
BootInitScreenshot ==
    /\ boot = "awaitGenerator"
    /\ StartInitialize(1)
    /\ boot' = "awaitScreenshot"
    /\ UNCHANGED <<browser, isInitialized, bstate, closeCalls, openPages, cln, cap, resp,
                   genReady, sig, server, exited, http, gen, calc>>

\* initialize() settled: the isReady() log line, or the catch block; the
\* callback ends either way
BootUp ==
    /\ boot = "awaitScreenshot"
    /\ ini[1].pc \in {"returned", "threw"}
    /\ boot' = "up"
    /\ UNCHANGED <<renderVars, genReady, sig, server, exited, http, gen, calc>>

\* the server: startup, with a /generate request arriving at any time
NextBoot ==
    \/ BootCallback
    \/ BootInitScreenshot
    \/ BootUp
    \/ LaunchOk(1)
    \/ LaunchFail(1)
    \/ GenStep(1)

SpecBoot == Init /\ [][NextBoot]_vars


\* ------------------------------------------------ main.js: POST /screenshot
\* const viewportOptions = {...} of the handler
viewportOptions ==
    [ desktop |-> [width |-> 1200, height |-> 800,  deviceScaleFactor |-> 1, fullPage |-> TRUE],
      tablet  |-> [width |-> 768,  height |-> 1024, deviceScaleFactor |-> 2, fullPage |-> TRUE],
      mobile  |-> [width |-> 375,  height |-> 667,  deviceScaleFactor |-> 2, fullPage |-> TRUE] ]

\* a request body without a viewport member
NoViewport == "undefined"

\* viewportOptions[viewport] for an inherited property name is a function or
\* the prototype object: truthy, so `|| viewportOptions.desktop` is not taken,
\* and with no width, height, deviceScaleFactor or fullPage of its own, so
\* the destructuring of generateScreenshot gives it the defaults
InheritedOptions ==
    [width |-> DefaultOptions.width, height |-> DefaultOptions.height,
     deviceScaleFactor |-> DefaultOptions.deviceScaleFactor,
     fullPage |-> DefaultOptions.fullPage]

\* HandlerOptions that takes the mobile preset for a name it does not know
HandlerOptionsMobileFirst(viewport, format) ==
    LET name == IF viewport = NoViewport THEN "desktop" ELSE viewport
        preset == IF name \in DOMAIN viewportOptions THEN viewportOptions[name]
                  ELSE IF name \in PrototypeKeys THEN InheritedOptions
                  ELSE viewportOptions["mobile"]
    IN  [width |-> preset.width, height |-> preset.height,
         deviceScaleFactor |-> preset.deviceScaleFactor,
         fullPage |-> preset.fullPage, format |-> format]

\* { viewport = 'desktop' } = req.body;
\* viewportOptions[viewport] || viewportOptions.desktop; options.format = format
HandlerOptions(viewport, format) ==
    LET name == IF viewport = NoViewport THEN "desktop" ELSE viewport
        preset == IF name \in DOMAIN viewportOptions THEN viewportOptions[name]
                  ELSE IF name \in PrototypeKeys THEN InheritedOptions
                  ELSE viewportOptions["desktop"]
    IN  [width |-> preset.width, height |-> preset.height,
         deviceScaleFactor |-> preset.deviceScaleFactor,
         fullPage |-> preset.fullPage, format |-> format]

\* viewport names a request may carry: the presets, a name that is no preset,
\* an inherited property name, and none
RequestViewports == {"desktop", "tablet", "mobile", "watch", "constructor", NoViewport}

\* ScreenshotRequest that checks availability before it checks the input
ScreenshotRequestAvailabilityFirst(c, hasHtml, viewport) ==
    /\ http[c] = HttpIdle
    /\ cap[c].pc = "idle"
    /\ (c > 1) => (http[c - 1] # HttpIdle)
    /\ IF ~isReady
         THEN /\ http' = [http EXCEPT ![c] = [status |-> 503, body |-> "service_unavailable",
                                              hasHtml |-> hasHtml, viewport |-> viewport]]
              /\ UNCHANGED cap
         ELSE IF ~hasHtml
           THEN /\ http' = [http EXCEPT ![c] = [status |-> 400, body |-> "validation_error",
                                                hasHtml |-> hasHtml, viewport |-> viewport]]
                /\ UNCHANGED cap
           ELSE /\ http' = [http EXCEPT ![c] = [status |-> 0, body |-> "pending",
                                                hasHtml |-> hasHtml, viewport |-> viewport]]
                /\ cap' = BeginCapture(cap, c, HandlerOptions(viewport, "png"))
    /\ UNCHANGED <<browser, isInitialized, bstate, closeCalls, openPages, ini, cln, resp,
                   boot, genReady, sig, server, exited, gen, calc>>

\* the handler up to its first await: 400 without html_code, 503 when the
\* service is not ready, else the capture is started
ScreenshotRequest(c, hasHtml, viewport) ==
    /\ http[c] = HttpIdle
    /\ cap[c].pc = "idle"
    /\ (c > 1) => (http[c - 1] # HttpIdle)
    /\ IF ~hasHtml
         THEN /\ http' = [http EXCEPT ![c] = [status |-> 400, body |-> "validation_error",
                                              hasHtml |-> hasHtml, viewport |-> viewport]]
              /\ UNCHANGED cap
         ELSE IF ~isReady
           THEN /\ http' = [http EXCEPT ![c] = [status |-> 503, body |-> "service_unavailable",
                                                hasHtml |-> hasHtml, viewport |-> viewport]]
                /\ UNCHANGED cap
           ELSE /\ http' = [http EXCEPT ![c] = [status |-> 0, body |-> "pending",
                                                hasHtml |-> hasHtml, viewport |-> viewport]]
                /\ cap' = BeginCapture(cap, c, HandlerOptions(viewport, "png"))
    /\ UNCHANGED <<browser, isInitialized, bstate, closeCalls, openPages, ini, cln, resp,
                   boot, genReady, sig, server, exited, gen, calc>>

\* generateScreenshotDataUrl settled: res.json(...) or the catch block's 500
ScreenshotRespond(c) ==
    /\ http[c].body = "pending"
    /\ CapDone(c)
    /\ http' = [http EXCEPT ![c] =
                  IF cap[c].pc = "returned"
                    THEN [http[c] EXCEPT !.status = 200, !.body = DataUrl(c)]
                    ELSE [http[c] EXCEPT !.status = 500,
                                         !.body = "screenshot_generation_failed"]]
    /\ UNCHANGED <<renderVars, boot, genReady, sig, server, exited, gen, calc>>

\* ------------------------------------------------- main.js: graceful shutdown
\* SignalReceived with cleanup() started but not awaited before server.close(...)
SignalReceivedNoAwait(s) ==
    /\ sig[s] = "idle"
    /\ StartCleanup(s)
    /\ sig' = [sig EXCEPT ![s] = "closing"]
    /\ server' = "closing"
    /\ UNCHANGED <<browser, isInitialized, bstate, openPages, ini, cap, resp,
                   boot, genReady, exited, http, gen, calc>>

\* the signal handler up to `await screenshotService.cleanup()`. When cleanup
\* returns without awaiting, the handler's continuation is the next microtask
\* and server.close(...) is called before any other event is handled.
SignalReceived(s) ==
    /\ sig[s] = "idle"
    /\ StartCleanup(s)
    /\ IF browser = 0
         THEN /\ sig' = [sig EXCEPT ![s] = "closing"]
              /\ server' = "closing"
         ELSE /\ sig' = [sig EXCEPT ![s] = "cleanup"]
              /\ UNCHANGED server
    /\ UNCHANGED <<browser, isInitialized, bstate, openPages, ini, cap, resp,
                   boot, genReady, exited, http, gen, calc>>

\* the browser close resolved: cleanup() finishes and the handler goes on to
\* server.close(...)
SignalCleanupDone(s) ==
    /\ sig[s] = "cleanup"
    /\ FinishCleanup(s)
    /\ sig' = [sig EXCEPT ![s] = "closing"]
    /\ server' = "closing"
    /\ UNCHANGED <<closeCalls, ini, cap, resp, boot, genReady, exited, http, gen, calc>>

\* the server.close callback: process.exit(0)
ServerClosed(s) ==
    /\ sig[s] = "closing"
    /\ exited' = TRUE
    /\ UNCHANGED <<renderVars, boot, genReady, sig, server, http, gen, calc>>

\* process.exit has not run: the event loop still dispatches callbacks
Running == ~exited

\* the running server: startup, signals, and a POST /screenshot request on a
\* connection that is open; nothing runs after process.exit
NextServer ==
    \/ Running /\ BootCallback
    \/ Running /\ BootInitScreenshot
    \/ Running /\ BootUp
    \/ Running /\ LaunchOk(1)
    \/ Running /\ LaunchFail(1)
    \/ \E s \in Signals : Running /\ SignalReceived(s)
    \/ \E s \in Signals : Running /\ SignalCleanupDone(s)
    \/ \E s \in Signals : Running /\ ServerClosed(s)
    \/ \E hasHtml \in BOOLEAN : \E viewport \in RequestViewports :
          Running /\ ScreenshotRequest(1, hasHtml, viewport)
    \/ Running /\ CaptureStep(1)
    \/ Running /\ ScreenshotRespond(1)

SpecServer == Init /\ [][NextServer]_vars


\* ===================================================================== claims

\* C1: every generateScreenshot call that has returned or thrown has no open
\* page, whichever await failed.
PageClosedOnExit == \A c \in CapIds : CapDone(c) => c \notin openPages

\* a call that opened a page, hit the content-load timeout and threw, on a
\* browser that is still running
PageClosedOnExitWitness ==
    \E c \in DirectIds :
        /\ cap[c].pc = "threw"
        /\ cap[c].page
        /\ cap[c].err = "setContent timeout"
        /\ bstate[cap[c].brw] = "live"

\* C2 (as claimed): the service starts not ready, is ready right after a
\* successful launch, and once a cleanup() has returned it is not ready and
\* every generateScreenshot call started from then on is rejected as not
\* initialized.
ReadinessContract ==
    /\ ~isReady
    /\ [][ /\ \A i \in InitIds :
                (ini[i].pc = "launching" /\ ini'[i].launch = "ok") => isReady'
           /\ (\E k \in CleanIds : cln'[k].pc = "returned") => ~isReady'
           /\ \A c \in CapIds :
                ( /\ \E k \in CleanIds : cln[k].pc = "returned"
                  /\ cap[c].pc = "idle"
                  /\ cap'[c].pc # "idle" )
                => (cap'[c].pc = "threw" /\ cap'[c].err = ErrNotInitialized) ]_vars

\* C3: an initialize() call whose launch settles always returns normally, and
\* after a failed launch isReady() is false.
InitializeNeverThrows ==
    [][ \A i \in InitIds :
          (ini[i].pc = "launching" /\ ini'[i].pc # "launching")
          => /\ ini'[i].pc = "returned"
             /\ (ini'[i].launch = "failed") => ~isReady' ]_vars

\* a second initialize() failed after the first one had launched a browser
InitializeNeverThrowsWitness ==
    \E i \in InitIds :
        /\ ini[i].pc = "returned"
        /\ ini[i].launch = "failed"
        /\ browser # 0
        /\ ~isReady

\* C4 (as claimed): once a launch has failed or a cleanup() has returned, the
\* service is never ready again.
DisabledIsTerminal ==
    ( \/ \E i \in InitIds : ini[i].launch = "failed"
      \/ \E k \in CleanIds : cln[k].pc = "returned" )
    => ~isReady

CaptureFailureKeepsReadiness ==
    [][ \A c \in CapIds :
          (cap'[c].err # cap[c].err \/ (cap'[c].pc = "threw" /\ cap[c].pc # "threw"))
          => UNCHANGED <<browser, isInitialized>> ]_vars

\* a call threw on a screenshot failure and the service is still ready on the
\* browser the call used
CaptureFailureKeepsReadinessWitness ==
    \E c \in DirectIds :
        /\ cap[c].pc = "threw"
        /\ cap[c].err = "screenshot failed"
        /\ isReady
        /\ browser = cap[c].brw

\* C7: generateResponsiveScreenshots never throws; every device whose turn has
\* passed has an entry, the entry is the data URL if that device's capture
\* returned and null if it threw, the next device's capture is started whatever
\* the outcome, and the returned record has exactly the three device keys (all
\* null when no browser was ever launched).
ResponsivePartialResults ==
    /\ [] /\ resp.pc \in {"idle", "running", "returned"}
          /\ (resp.pc = "returned") => (DOMAIN resp.screenshots = DeviceNames)
          /\ (resp.pc = "running")
             => (DOMAIN resp.screenshots = {Devices[k] : k \in 1..(resp.idx - 1)})
          /\ (\A b \in InitIds : bstate[b] = "none")
             => \A d \in DOMAIN resp.screenshots : resp.screenshots[d] = Null
    /\ [][ (resp.pc = "running" /\ resp' # resp)
           => /\ resp'.screenshots[Devices[resp.idx]] =
                   (IF cap[RespCapture].pc = "returned"
                      THEN "data:image/png;base64,<screenshot>" ELSE Null)
              /\ \A d \in DOMAIN resp.screenshots :
                   resp'.screenshots[d] = resp.screenshots[d]
              /\ (resp.idx < NumDevices)
                 => /\ resp'.pc = "running"
                    /\ resp'.idx = resp.idx + 1
                    /\ cap'[RespCapture].pc \in {"newPage", "threw"}
                    /\ cap'[RespCapture].opts = ResponsiveOptions(Devices[resp.idx + 1])
              /\ (resp.idx = NumDevices) => (resp'.pc = "returned") ]_vars

\* the tablet capture failed, desktop and mobile succeeded
ResponsivePartialResultsWitness ==
    /\ resp.pc = "returned"
    /\ resp.screenshots["tablet"] = Null
    /\ resp.screenshots["desktop"] # Null
    /\ resp.screenshots["mobile"] # Null

\* C8: after a startup whose browser launch failed the generator is ready and
\* every step of a generateHomepage call is possible: starting a call with any
\* request, taking the provider's answer, and returning the result.
LaunchFailureKeepsGeneration ==
    (boot = "up" /\ ini[1].launch = "failed")
    => /\ GeneratorIsReady
       /\ (gen[1].pc = "idle") => \A req \in Requests : ENABLED GenCall(1, req)
       /\ (gen[1].pc = "completing")
          => \A response \in ProviderResponses : ENABLED ProviderResolve(1, response)
       /\ (gen[1].pc = "customCSS") => ENABLED GenReturn(1)

\* a homepage was generated after the launch had failed
LaunchFailureKeepsGenerationWitness ==
    /\ boot = "up"
    /\ ini[1].launch = "failed"
    /\ ~isReady
    /\ gen[1].pc = "returned"

ResultKeys ==
    {"id", "business_name", "generated_at", "html_code", "css_code", "js_code",
     "style_applied", "features_included", "estimated_improvement", "generation_time"}

\* messages a failed completion step can carry: the provider's own, or the
\* TypeError of reading the content of an unusable response
CompletionCauses ==
    ProviderErrors \cup {"Cannot read properties of undefined (reading 'message')",
                         "Cannot read properties of null (reading 'trim')"}

\* C9: a generateHomepage call that returned carries a result with all ten
\* fields and no error; a call that threw carries no result and an error
\* "Homepage generation failed: ..." that ends with the cause's message; a call
\* still running carries neither.
CompleteResultOrThrow ==
    \A g \in GenIds :
        /\ (gen[g].pc = "returned")
           => /\ Len(gen[g].result) = 1
              /\ DOMAIN gen[g].result[1] = ResultKeys
              /\ gen[g].result[1].id = g
              /\ gen[g].result[1].business_name = gen[g].req.businessName
              /\ gen[g].result[1].html_code = gen[g].html
              /\ gen[g].result[1].style_applied = gen[g].req.stylePreference
              /\ Len(gen[g].result[1].features_included) >= 5
              /\ gen[g].result[1].js_code \in {Null, BookingJS}
              /\ gen[g].error = <<>>
        /\ (gen[g].pc = "threw")
           => /\ gen[g].result = <<>>
              /\ Len(gen[g].error) >= 2
              /\ Head(gen[g].error) = "Homepage generation failed: "
              /\ gen[g].error[Len(gen[g].error)] \in CompletionCauses
        /\ (gen[g].pc \in {"idle", "completing", "customCSS"})
           => (gen[g].result = <<>> /\ gen[g].error = <<>>)

\* one call returned a result while another threw on a provider timeout
CompleteResultOrThrowWitness ==
    \E g, h \in GenIds :
        /\ gen[g].pc = "returned"
        /\ gen[h].pc = "threw"
        /\ gen[h].error[Len(gen[h].error)] = "Request timed out."

\* C10: every generateHomepage call that has started has made exactly one
\* completion-provider call, also after the provider failed.
OneProviderCall ==
    \A g \in GenIds : gen[g].calls = (IF gen[g].pc = "idle" THEN 0 ELSE 1)

\* a call that failed at the provider and a call that succeeded, one provider
\* call each
OneProviderCallWitness ==
    \E g, h \in GenIds :
        /\ gen[g].pc = "threw"
        /\ gen[g].calls = 1
        /\ gen[h].pc = "returned"
        /\ gen[h].calls = 1

\* a provider response with no choices, with null content, or with content
\* that is empty or made of whitespace only
Unusable(response) ==
    \/ response.choices = <<>>
    \/ response.choices[1].isNull
    \/ \A k \in 1..Len(response.choices[1].text) : response.choices[1].text[k] = WS

\* C11 (as claimed): a generateHomepage call whose provider response was
\* unusable (no choices, null content, empty or whitespace-only content) never
\* returns a result.
UnusableResponseFails ==
    \A g \in GenIds :
        (gen[g].pc = "returned") => ~Unusable(gen[g].response[1])

\* C12: on SIGTERM or SIGINT the handler's cleanup() call has completed
\* before that handler closes the HTTP server, and so before the process exits:
\* the server is closing, or the process has exited, only after the cleanup()
\* of a handler that went on to server.close has returned.
CleanupBeforeClose ==
    /\ \A s \in Signals : (sig[s] = "closing") => (cln[s].pc = "returned")
    /\ (server = "closing")
       => \E s \in Signals : sig[s] = "closing" /\ cln[s].pc = "returned"
    /\ exited
       => (server = "closing"
           /\ \E s \in Signals : sig[s] = "closing" /\ cln[s].pc = "returned")

\* the process exited after a handler's cleanup() closed the launched browser
CleanupBeforeCloseWitness ==
    /\ exited
    /\ \E s \in Signals :
          /\ sig[s] = "closing"
          /\ cln[s].pc = "returned"
          /\ cln[s].target # 0
          /\ bstate[cln[s].target] = "closed"

\* C13: concurrent generateHomepage calls share no mutable state. Every step
\* changes the record of at most one call, and whatever the interleaving, a
\* call that has returned holds the result its own request and its own
\* provider response determine (the id apart), and a call that threw on its
\* provider response holds the error that response determines.
CallsAreIndependent ==
    [][ /\ \A g, h \in GenIds :
             (g # h /\ gen'[g] # gen[g]) => (gen'[h] = gen[h])
        /\ \A g \in GenIds :
             /\ (gen'[g].pc = "returned")
                => LET req == gen'[g].req
                       response == gen'[g].response[1]
                       result == gen'[g].result[1]
                   IN  /\ result.business_name = req.businessName
                       /\ result.style_applied = req.stylePreference
                       /\ result.html_code = Trim(response.choices[1].text)
                       /\ result.css_code = CustomCSS(req)
                       /\ result.js_code = (IF req.includeBooking THEN BookingJS ELSE Null)
                       /\ result.features_included =
                              DetermineFeaturesIncluded(req.recommendations,
                                                        req.includeBooking,
                                                        req.stylePreference)
                       /\ result.estimated_improvement =
                              ImprovementDescription(req.recommendations,
                                                     result.features_included)
             /\ (gen'[g].pc = "threw" /\ gen'[g].response # <<>>)
                => (gen'[g].error =
                      GenerationError(CodeError(ExtractError(gen'[g].response[1]))))
      ]_vars

\* call 1 started first and is still in flight when call 2, made with a
\* different request, has already returned
CallsAreIndependentWitness ==
    /\ gen[1].pc = "customCSS"
    /\ gen[2].pc = "returned"
    /\ gen[1].req # gen[2].req
    /\ gen[1].req.includeBooking # gen[2].req.includeBooking

\* evaluations of _determineFeaturesIncluded that have finished
FeaturesDone == calc.fn = "features" /\ calc.done

Count(seq, x) == Cardinality({k \in 1..Len(seq) : seq[k] = x})

Position(seq, x) == CHOOSE k \in 1..Len(seq) : seq[k] = x

\* C14: the feature list begins with responsive_design, modern_layout, ends
\* with call_to_action, contact_section, services_showcase, holds no token
\* twice, and holds mobile_optimized, seo_optimized, conversion_optimized once
\* each exactly when its recommendation type occurs, always in that order,
\* whatever the order and multiplicity of the recommendations.
FeatureListShape ==
    FeaturesDone =>
      LET f == calc.out
          n == Len(f)
          types == {calc.args.recommendations[k].type :
                       k \in 1..Len(calc.args.recommendations)}
      IN  /\ n >= 5
          /\ SubSeq(f, 1, 2) = <<"responsive_design", "modern_layout">>
          /\ SubSeq(f, n - 2, n) = <<"call_to_action", "contact_section", "services_showcase">>
          /\ \A i, j \in 1..n : (i # j) => (f[i] # f[j])
          /\ Count(f, "mobile_optimized") =
                (IF "mobile_optimization" \in types THEN 1 ELSE 0)
          /\ Count(f, "seo_optimized") =
                (IF "seo_optimization" \in types THEN 1 ELSE 0)
          /\ Count(f, "conversion_optimized") =
                (IF "conversion_optimization" \in types THEN 1 ELSE 0)
          /\ \A i, j \in 1..n :
                (\/ f[i] = "mobile_optimized" /\ f[j] \in {"seo_optimized", "conversion_optimized"}
                 \/ f[i] = "seo_optimized" /\ f[j] = "conversion_optimized")
                => (i < j)

\* recommendations seo, mobile, seo, conversion (out of order, one repeated)
\* gave mobile_optimized, seo_optimized, conversion_optimized once each
FeatureListShapeWitness ==
    /\ FeaturesDone
    /\ RecTypes(calc.args.recommendations) =
          <<"seo_optimization", "mobile_optimization", "seo_optimization",
            "conversion_optimization">>
    /\ Position(calc.out, "mobile_optimized") + 1 = Position(calc.out, "seo_optimized")
    /\ Position(calc.out, "seo_optimized") + 1 = Position(calc.out, "conversion_optimized")

\* C15: the feature list holds modern_typography and gradient_backgrounds
\* when stylePreference is "modern", and neither of them for any other style.
ModernStyleFeatures ==
    FeaturesDone =>
      /\ Includes(calc.out, "modern_typography") <=> (calc.args.stylePreference = "modern")
      /\ Includes(calc.out, "gradient_backgrounds") <=> (calc.args.stylePreference = "modern")

\* a "modern" evaluation that holds both tokens
ModernStyleFeaturesWitness ==
    /\ FeaturesDone
    /\ calc.args.stylePreference = "modern"
    /\ Includes(calc.out, "modern_typography")
    /\ Includes(calc.out, "gradient_backgrounds")

\* C16: the result's feature list holds booking_integration exactly when the
\* request's includeBooking is true, and its js_code is non-null exactly then.
BookingIffRequested ==
    \A g \in GenIds :
        (gen[g].pc = "returned")
        => /\ Includes(gen[g].result[1].features_included, "booking_integration")
                <=> gen[g].req.includeBooking
           /\ (gen[g].result[1].js_code # Null) <=> gen[g].req.includeBooking

\* one call returned with booking and one without
BookingIffRequestedWitness ==
    \E g, h \in GenIds :
        /\ gen[g].pc = "returned" /\ gen[g].req.includeBooking
        /\ gen[g].result[1].js_code = BookingJS
        /\ gen[h].pc = "returned" /\ ~gen[h].req.includeBooking
        /\ gen[h].result[1].js_code = Null

\* the phrase the narrative gives each recommendation type
NarrativePhrases ==
    [ design_improvement      |-> "modern design",
      mobile_optimization     |-> "mobile optimization",
      seo_optimization        |-> "SEO optimization",
      conversion_optimization |-> "conversion optimization",
      performance_boost       |-> "performance improvements" ]

\* C17: the improvement narrative maps every recommendation type to its
\* phrase (an unknown type to "website enhancement"), lists the first three
\* distinct phrases in first-seen order, adds "and N other improvements" with
\* N = distinct - 3 exactly when there are more than three distinct phrases,
\* states the total number of recommendations (not the distinct count) as
\* the improvement count and the length of the feature list as the feature
\* count.
NarrativeShape ==
    (calc.fn = "improvement" /\ calc.done) =>
      LET recs == calc.args.recommendations
          out == calc.out
          phrase == [k \in 1..Len(recs) |->
                        IF recs[k].type \in DOMAIN NarrativePhrases
                          THEN NarrativePhrases[recs[k].type]
                          ELSE "website enhancement"]
          distinct == {phrase[k] : k \in 1..Len(recs)}
          First(p) == CHOOSE k \in 1..Len(recs) :
                         phrase[k] = p /\ \A m \in 1..(k - 1) : phrase[m] # p
          shown == {out.listed[i] : i \in 1..Len(out.listed)}
      IN  /\ out.numRecommendations = Len(recs)
          /\ out.numFeatures = Len(calc.args.featuresIncluded)
          /\ Len(out.listed) = (IF Cardinality(distinct) < 3 THEN Cardinality(distinct) ELSE 3)
          /\ shown \subseteq distinct
          /\ \A i, j \in 1..Len(out.listed) :
                (i < j) => (First(out.listed[i]) < First(out.listed[j]))
          /\ \A p \in distinct \ shown : \A q \in shown : First(q) < First(p)
          /\ out.others = (IF Cardinality(distinct) > 3 THEN Cardinality(distinct) - 3 ELSE 0)

\* four recommendations of four types, the first of them unknown: three
\* phrases are listed and one other is announced
NarrativeShapeWitness ==
    /\ calc.fn = "improvement" /\ calc.done
    /\ Len(calc.args.recommendations) = 4
    /\ calc.out.numRecommendations = 4
    /\ calc.out.listed[1] = "website enhancement"
    /\ Len(calc.out.listed) = 3
    /\ calc.out.others = 1

\* the colour strings of the palettes
HexColours ==
    {"#10B981", "#059669", "#3B82F6", "#F59E0B", "#D97706", "#EF4444", "#1E40AF",
     "#DC2626", "#B91C1C", "#374151", "#EC4899", "#DB2777", "#8B5CF6", "#1F2937",
     "#111827"}

\* C18 (as claimed): the catalog lookups are total with a default. For every
\* industry that is not one of the catalog's own keys, "constructor",
\* "toString" and "__proto__" among them, _getIndustryTemplate returns the
\* default guidance and _getBaseColors with no colorScheme returns the default
\* palette; every palette returned has primary, secondary and accent set to
\* a colour string.
LookupsTotalWithDefault ==
    /\ (calc.fn = "template" /\ calc.done /\ calc.args.industry \notin DOMAIN templates)
       => (calc.out = "Focus on clear value proposition")
    /\ (calc.fn = "colors" /\ calc.done /\ calc.args.colorScheme = Null
          /\ calc.args.industry \notin DOMAIN industryColors)
       => (calc.out = [primary |-> "#3B82F6", secondary |-> "#1E40AF", accent |-> "#10B981"])
    /\ (calc.fn = "colors" /\ calc.done)
       => (\A member \in {"primary", "secondary", "accent"} : calc.out[member] \in HexColours)

\* the industry keys the specification gives both catalogs
IndustryKeys ==
    {"home_services", "healthcare", "food_and_beverage", "automotive",
     "beauty_and_wellness", "professional_services", "retail"}

\* C19 (as claimed): the palette catalog and the template catalog are defined
\* over the same seven industry keys: for each of them both lookups answer
\* with the catalog's own entry for that key, not with the default.
CatalogsShareKeys ==
    /\ (calc.fn = "colors" /\ calc.done /\ calc.args.colorScheme = Null
          /\ calc.args.industry \in IndustryKeys)
       => /\ calc.args.industry \in DOMAIN industryColors
          /\ calc.out = industryColors[calc.args.industry]
    /\ (calc.fn = "template" /\ calc.done /\ calc.args.industry \in IndustryKeys)
       => /\ calc.args.industry \in DOMAIN templates
          /\ calc.out = templates[calc.args.industry]

CompleteDocWithCss ==
    /\ calc.fn = "completeHtml" /\ calc.done
    /\ Includes(calc.args.htmlContent, "<!DOCTYPE html>")
         \/ Includes(calc.args.htmlContent, "<html")
    /\ calc.args.cssContent # <<>>

\* C21 (as claimed): for a complete document that contains </head> and a
\* non-empty css, _createCompleteHtml returns the document with exactly one
\* insertion, a style block whose content is exactly the css, immediately
\* before </head>, every other character unchanged.
StyleInsertedBeforeHeadEnd ==
    (CompleteDocWithCss /\ Includes(calc.args.htmlContent, "</head>"))
    => \E k \in 1..Len(calc.args.htmlContent) :
          /\ calc.args.htmlContent[k] = "</head>"
          /\ calc.out = SubSeq(calc.args.htmlContent, 1, k - 1)
                         \o <<"<style>">> \o calc.args.cssContent \o <<"</style>">>
                         \o SubSeq(calc.args.htmlContent, k, Len(calc.args.htmlContent))

\* C22 (as claimed): for html that looks like a complete document (it holds
\* a doctype or an html root tag) and non-empty css, the document built holds
\* a style block with that css inside a head, the existing head when </head>
\* is present and a synthesized one otherwise: the css is never dropped.
CssNeverDropped ==
    CompleteDocWithCss
    => LET out == calc.out
           css == calc.args.cssContent
       IN  \E k \in 1..(Len(out) - Len(css) - 2) :
              /\ SubSeq(out, k, k + Len(css) + 1) = <<"<style>">> \o css \o <<"</style>">>
              /\ out[k + Len(css) + 2] = "</head>"
              /\ Includes(calc.args.htmlContent, "</head>")
                 \/ (k > 1 /\ out[k - 1] = "<head>")

\* C23: the viewport preset lookup is total with desktop as the default: a
\* capture started for desktop, tablet or mobile uses that preset's width,
\* height and device scale factor, and a capture started for any other
\* viewport name, or for none, uses 1200 x 800 at scale 1.
ViewportLookupTotal ==
    \A c \in DirectIds :
        (http[c].hasHtml /\ cap[c].pc # "idle")
        => LET size == <<cap[c].opts.width, cap[c].opts.height,
                         cap[c].opts.deviceScaleFactor>>
           IN  CASE http[c].viewport = "desktop" -> size = <<1200, 800, 1>>
                 [] http[c].viewport = "tablet"  -> size = <<768, 1024, 2>>
                 [] http[c].viewport = "mobile"  -> size = <<375, 667, 2>>
                 [] OTHER                        -> size = <<1200, 800, 1>>

\* a request for the viewport "watch" was captured at the desktop size
ViewportLookupTotalWitness ==
    /\ http[1].viewport = "watch"
    /\ http[1].status = 200
    /\ cap[1].pc = "returned"
    /\ cap[1].opts.width = 1200
    /\ cap[1].opts.height = 800

\* C24: POST /screenshot checks its input before it checks availability: a
\* request without html_code is answered 400 whether or not the service is
\* ready; a request with html_code made while the service is not ready is
\* answered 503, and no capture is started for either.
InputCheckedBeforeAvailability ==
    [][ \A c \in DirectIds :
          (http[c] = HttpIdle /\ http'[c] # HttpIdle)
          => /\ (~http'[c].hasHtml)
                => (http'[c].status = 400 /\ cap' = cap /\ openPages' = openPages)
             /\ (http'[c].hasHtml /\ ~isReady)
                => (http'[c].status = 503 /\ cap' = cap /\ openPages' = openPages)
             /\ (http'[c].hasHtml /\ isReady) => (cap'[c].pc = "newPage")
      ]_vars

\* a request without html_code got 400 although the service had not even
\* begun to initialize
InputCheckedBeforeAvailabilityWitness ==
    /\ http[1].status = 400
    /\ ~http[1].hasHtml
    /\ boot = "listening"
    /\ ini[1].pc = "idle"
    /\ ~isReady

\* C25: the prompt built by _createHomepagePrompt holds exactly the first
\* min(3, n) recommendations, in their input order, as "title: description"
\* lines; it holds the colour-scheme clause exactly when colorScheme is
\* non-null and the booking clause exactly when includeBooking is true.
PromptShape ==
    (calc.fn = "prompt" /\ calc.done) =>
      LET recs == calc.args.recommendations
          lines == calc.out.topRecommendations
      IN  /\ Len(lines) = (IF Len(recs) < 3 THEN Len(recs) ELSE 3)
          /\ \A k \in 1..Len(lines) :
                lines[k] = <<"- ", recs[k].title, ": ", recs[k].description>>
          /\ (calc.out.colorSchemeText # <<>>) <=> (calc.args.colorScheme # Null)
          /\ (calc.args.colorScheme # Null)
             => (calc.out.colorSchemeText[2] = calc.args.colorScheme)
          /\ (calc.out.bookingText # <<>>) <=> calc.args.includeBooking

\* four recommendations, a colour scheme and booking: three lines, both clauses
PromptShapeWitness ==
    /\ calc.fn = "prompt" /\ calc.done
    /\ Len(calc.args.recommendations) = 4
    /\ calc.args.recommendations[1].title # calc.args.recommendations[2].title
    /\ Len(calc.out.topRecommendations) = 3
    /\ calc.out.colorSchemeText = <<"Use this color scheme: ", "#ABCDEF">>
    /\ calc.out.bookingText # <<>>

\* C26: each generateScreenshot call on a Ready service opens one page, works
\* on that page and closes only that page. A call is never held back by
\* another call, and a call's page stays open through the call's stages unless
\* its browser was closed: no other call closes it.
OwnPagePerCall ==
    /\ \A c \in openPages :
          /\ cap[c].page
          /\ cap[c].pc \in StageSet \cup {"closing"}
          /\ bstate[cap[c].brw] = "live"
    /\ \A c \in DirectIds :
          /\ (cap[c].pc \in StageSet)
             => (c \in openPages \/ bstate[cap[c].brw] = "closed")
          /\ (cap[c].pc = "idle" /\ ((c > 1) => (cap[c - 1].pc # "idle")))
             => ENABLED CaptureCall(c)
          /\ (cap[c].pc = "newPage" /\ bstate[cap[c].brw] = "live")
             => ENABLED NewPageOk(c)
          /\ (cap[c].pc \in StageSet /\ c \in openPages)
             => (ENABLED StageOk(c) \/ ENABLED ScreenshotOk(c))

\* every direct call has its page open at the same time
OwnPagePerCallWitness ==
    /\ openPages = DirectIds
    /\ \A c \in DirectIds : cap[c].pc \in StageSet /\ cap[c].brw = browser

\* C27 (as claimed): the service owns at most one live browser: after any
\* interleaving of initialize() and cleanup() calls, every browser that was
\* launched and not closed is the one the handle refers to.
NoBrowserLeaked ==
    \A b \in InitIds : (bstate[b] = "live") => (browser = b)

\* C28 (as claimed): under any interleaving of cleanup() calls, close is
\* invoked at most once on each launched browser.
CloseInvokedOnce ==
    \A b \in InitIds : closeCalls[b] <= 1

\* C29 (as claimed): once a cleanup() call has begun closing the browser,
\* isReady() is false and a generateScreenshot call that starts is rejected
\* as not ready, so no new page is requested on that browser.
NotReadyWhileClosing ==
    [][ (\E k \in CleanIds : cln[k].pc = "closing")
        => /\ ~isReady
           /\ \A c \in CapIds :
                 (cap[c].pc = "idle" /\ cap'[c].pc # "idle")
                 => (cap'[c].pc = "threw" /\ cap'[c].err = ErrNotInitialized)
      ]_vars

\* C30: a generateScreenshot call that passes the readiness check requests
\* its page, in the same step, on the non-null handle it checked; a call that
\* got past the check never holds a null handle; and isInitialized true
\* implies a non-null handle in every reachable state.
CheckedHandleUsed ==
    [][ /\ isInitialized => (browser # 0)
        /\ isInitialized' => (browser' # 0)
        /\ \A c \in CapIds :
              /\ (cap[c].pc = "idle" /\ cap'[c].pc # "idle")
                 => IF isInitialized /\ browser # 0
                      THEN cap'[c].pc = "newPage" /\ cap'[c].brw = browser
                      ELSE cap'[c].pc = "threw" /\ cap'[c].err = ErrNotInitialized
                           /\ cap'[c].brw = 0
              /\ (cap'[c].pc \notin {"idle", "threw"}) => (cap'[c].brw # 0)
      ]_vars

\* a call passed the check on browser 2, launched after browser 1 was closed,
\* and holds its page there
CheckedHandleUsedWitness ==
    \E c \in DirectIds :
        /\ bstate[1] = "closed"
        /\ browser = 2
        /\ cap[c].brw = 2
        /\ c \in openPages

====
